---- MODULE Spec2Model ----
(***************************************************************************)
(* N-body solver: particle state, direct force calculator, particle        *)
(* system, the three integrators and the simulation driver.                *)
(*                                                                         *)
(* Numbers.  The program computes in float64.  The model computes in       *)
(* integers (fixed-point units): addition, subtraction and multiplication  *)
(* are exact, division rounds toward zero (sign-symmetric, like float      *)
(* rounding), the vector norm is the integer square root.  A division by   *)
(* zero yields the single absorbing value NonFinite, which stands for      *)
(* numpy's inf / nan.                                                      *)
(*                                                                         *)
(* Storage.  numpy arrays are heap cells: heap[a] is the array stored at   *)
(* address a, a ParticleData object holds four addresses.  np.copy and     *)
(* every arithmetic expression allocate a fresh cell; an indexed store     *)
(* a[i][c] = v overwrites a cell in place.                                 *)
(***************************************************************************)
EXTENDS Integers, Sequences, FiniteSets, TLC

(***************************************************************************)
(* Bounds                                                                  *)
(***************************************************************************)
MaxSteps == 2

MaxDataOps == 3

MaxCalls == 2

(***************************************************************************)
(* Scalar arithmetic                                                       *)
(***************************************************************************)
NonFinite == 2147483647

G == 1

Abs(x) == IF x < 0 THEN -x ELSE x

Sign(x) == IF x < 0 THEN -1 ELSE 1

Add(a, b) == IF a = NonFinite \/ b = NonFinite THEN NonFinite ELSE a + b

Sub(a, b) == IF a = NonFinite \/ b = NonFinite THEN NonFinite ELSE a - b

Mul(a, b) == IF a = NonFinite \/ b = NonFinite THEN NonFinite ELSE a * b

Div(a, b) ==
    IF a = NonFinite \/ b = NonFinite \/ b = 0 THEN NonFinite
    ELSE Sign(a) * Sign(b) * (Abs(a) \div Abs(b))

RECURSIVE SqrtSearch(_, _, _)
SqrtSearch(x, lo, hi) ==
    IF lo = hi THEN lo
    ELSE LET mid == (lo + hi + 1) \div 2
         IN  IF mid * mid <= x THEN SqrtSearch(x, mid, hi)
             ELSE SqrtSearch(x, lo, mid - 1)

Sqrt(x) ==
    IF x = NonFinite THEN NonFinite
    ELSE SqrtSearch(x, 0, IF x < 46340 THEN x ELSE 46340)

(***************************************************************************)
(* Rows (one body's vector) and arrays.  An array is numpy-like: a shape   *)
(* and its rows.                                                           *)
(***************************************************************************)
Zeros3 == <<0, 0, 0>>

VAdd(u, v) == [c \in 1..Len(u) |-> Add(u[c], v[c])]

VSub(u, v) == [c \in 1..Len(u) |-> Sub(u[c], v[c])]

VScale(k, v) == [c \in 1..Len(v) |-> Mul(k, v[c])]

VDivScalar(v, k) == [c \in 1..Len(v) |-> Div(v[c], k)]

Arr(rws, k) == [shape |-> <<Len(rws), k>>, rows |-> rws]

len(a) == a.shape[1]

ArrAdd(a, b) == [shape |-> a.shape, rows |-> [i \in 1..len(a) |-> VAdd(a.rows[i], b.rows[i])]]

ArrScale(a, k) == [shape |-> a.shape, rows |-> [i \in 1..len(a) |-> VScale(k, a.rows[i])]]

ArrDivCol(a, m) ==
    [shape |-> a.shape, rows |-> [i \in 1..len(a) |-> VDivScalar(a.rows[i], m.rows[i][1])]]

zeros(n, k) == [shape |-> <<n, k>>, rows |-> [i \in 1..n |-> [c \in 1..k |-> 0]]]

(***************************************************************************)
(* Program state.                                                          *)
(*   heap     addresses 1..Len(heap) of the numpy arrays created so far    *)
(*   objs     the ParticleData objects: four array addresses each          *)
(*   systems  the ParticleSystem objects: data (an objs index) and the     *)
(*            force calculator they refer to                               *)
(*   sims     the Simulation objects                                       *)
(*   counters calls made so far and the value calc_forces last returned    *)
(*            (history, not program state)                                 *)
(*   ret, err the value returned, or the error raised, by the last call    *)
(*   last     the last operation performed (history)                       *)
(*   scen     what the driver of the run has done so far (history)         *)
(***************************************************************************)
VARIABLES heap, objs, systems, sims, counters, ret, err, last, scen

vars == <<heap, objs, systems, sims, counters, ret, err, last, scen>>

None == 0

NoError == ""

NoCounts ==
    [calc_forces |-> 0, force_writes |-> 0, calc_force |-> 0, integrator_step |-> 0,
     returned |-> 0]

Empty ==
    [heap |-> <<>>, objs |-> <<>>, systems |-> <<>>, sims |-> <<>>,
     counters |-> NoCounts, ret |-> None, err |-> NoError, new |-> None]

St ==
    [heap |-> heap, objs |-> objs, systems |-> systems, sims |-> sims,
     counters |-> counters, ret |-> ret, err |-> err, new |-> None]

Commit(s) ==
    /\ heap' = s.heap
    /\ objs' = s.objs
    /\ systems' = s.systems
    /\ sims' = s.sims
    /\ counters' = s.counters
    /\ ret' = s.ret
    /\ err' = s.err

(***************************************************************************)
(* numpy storage                                                           *)
(***************************************************************************)
Alloc(s, arr) == [s EXCEPT !.heap = Append(@, arr), !.new = Len(s.heap) + 1]

np_copy(s, a) == Alloc(s, s.heap[a])

SetField(s, d, f, a) ==
    [s EXCEPT !.objs[d][f] = a,
              !.counters.force_writes = IF f = "forces" THEN @ + 1 ELSE @]

Bind(s, d, f, arr) == LET s1 == Alloc(s, arr) IN SetField(s1, d, f, s1.new)

Raise(s, msg) == [s EXCEPT !.err = msg, !.ret = None]

Masses(s, d) == s.heap[s.objs[d].masses]

Positions(s, d) == s.heap[s.objs[d].positions]

Velocities(s, d) == s.heap[s.objs[d].velocities]

Forces(s, d) == s.heap[s.objs[d].forces]

View(s, d) ==
    [masses |-> Masses(s, d), positions |-> Positions(s, d),
     velocities |-> Velocities(s, d), forces |-> Forces(s, d)]

(***************************************************************************)
(* core/particle_data.py                                                   *)
(***************************************************************************)
\* Mutant of ParticleData: the forces always start as zeros, supplied or not.
ParticleData_ForcesAlwaysZeros(s, m, p, v, f) ==
    LET n == len(s.heap[m])
        New(t, fa) ==
            [t EXCEPT !.objs = Append(@, [masses |-> m, positions |-> p,
                                          velocities |-> v, forces |-> fa]),
                      !.ret = Len(t.objs) + 1,
                      !.err = NoError]
    IN  IF s.heap[m].shape # <<n, 1>> THEN Raise(s, "masses must have shape (n, 1)")
        ELSE IF s.heap[p].shape # <<n, 3>> THEN Raise(s, "position must have shape (n, 3)")
        ELSE IF s.heap[v].shape # <<n, 3>> THEN Raise(s, "velocity must have shape (n, 3)")
        ELSE IF f # None /\ s.heap[f].shape # <<n, 3>>
             THEN Raise(s, "force must have shape (n, 3)")
        ELSE LET s1 == Alloc(s, zeros(n, 3)) IN New(s1, s1.new)

\* Mutant of ParticleData: the positions are validated before the masses.
ParticleData_PositionsFirst(s, m, p, v, f) ==
    LET n == len(s.heap[m])
        New(t, fa) ==
            [t EXCEPT !.objs = Append(@, [masses |-> m, positions |-> p,
                                          velocities |-> v, forces |-> fa]),
                      !.ret = Len(t.objs) + 1,
                      !.err = NoError]
    IN  IF s.heap[p].shape # <<n, 3>> THEN Raise(s, "position must have shape (n, 3)")
        ELSE IF s.heap[m].shape # <<n, 1>> THEN Raise(s, "masses must have shape (n, 1)")
        ELSE IF s.heap[v].shape # <<n, 3>> THEN Raise(s, "velocity must have shape (n, 3)")
        ELSE IF f = None THEN LET s1 == Alloc(s, zeros(n, 3)) IN New(s1, s1.new)
        ELSE IF s.heap[f].shape # <<n, 3>> THEN Raise(s, "force must have shape (n, 3)")
        ELSE New(s, f)

ParticleData(s, m, p, v, f) ==
    LET n == len(s.heap[m])
        New(t, fa) ==
            [t EXCEPT !.objs = Append(@, [masses |-> m, positions |-> p,
                                          velocities |-> v, forces |-> fa]),
                      !.ret = Len(t.objs) + 1,
                      !.err = NoError]
    IN  IF s.heap[m].shape # <<n, 1>> THEN Raise(s, "masses must have shape (n, 1)")
        ELSE IF s.heap[p].shape # <<n, 3>> THEN Raise(s, "position must have shape (n, 3)")
        ELSE IF s.heap[v].shape # <<n, 3>> THEN Raise(s, "velocity must have shape (n, 3)")
        ELSE IF f = None THEN LET s1 == Alloc(s, zeros(n, 3)) IN New(s1, s1.new)
        ELSE IF s.heap[f].shape # <<n, 3>> THEN Raise(s, "force must have shape (n, 3)")
        ELSE New(s, f)

n_particles(data) == len(data.masses)

\* Mutant of copy: the positions array is passed on as it is (a shallow copy).
copy_SharesPositions(s, d) ==
    LET s1 == np_copy(s, s.objs[d].masses)
        s3 == np_copy(s1, s.objs[d].velocities)
        s4 == IF s.objs[d].forces # None THEN np_copy(s3, s.objs[d].forces)
              ELSE [s3 EXCEPT !.new = None]
    IN  ParticleData(s4, s1.new, s.objs[d].positions, s3.new, s4.new)

\* Mutant of copy: the forces are not passed on (the copy starts from zeros).
copy_DropsForces(s, d) ==
    LET s1 == np_copy(s, s.objs[d].masses)
        s2 == np_copy(s1, s.objs[d].positions)
        s3 == np_copy(s2, s.objs[d].velocities)
    IN  ParticleData(s3, s1.new, s2.new, s3.new, None)

copy(s, d) ==
    LET s1 == np_copy(s, s.objs[d].masses)
        s2 == np_copy(s1, s.objs[d].positions)
        s3 == np_copy(s2, s.objs[d].velocities)
        s4 == IF s.objs[d].forces # None THEN np_copy(s3, s.objs[d].forces)
              ELSE [s3 EXCEPT !.new = None]
    IN  ParticleData(s4, s1.new, s2.new, s3.new, s4.new)

(***************************************************************************)
(* ForceCalculator.py: DirectForceCalculator.                              *)
(* data is a ParticleData seen by value (View).                            *)
(***************************************************************************)
Dot(u, v) == Add(Add(Mul(u[1], v[1]), Mul(u[2], v[2])), Mul(u[3], v[3]))

magnitude(r) == Sqrt(Dot(r, r))

Pow3(x) == Mul(Mul(x, x), x)

Mass(data, i) == data.masses.rows[i][1]

\* Mutant of pair_force: a pair at zero separation is skipped (a softened
\* calculator).
pair_force_SkipsCoincident(data, i, j) ==
    LET r == VSub(data.positions.rows[j], data.positions.rows[i])
    IN  IF r = Zeros3 THEN Zeros3
        ELSE VScale(Div(Mul(Mul(G, Mass(data, i)), Mass(data, j)), Pow3(magnitude(r))), r)

\* Mutant of pair_force: the mass of body i is used twice.
pair_force_OwnMassTwice(data, i, j) ==
    LET r == VSub(data.positions.rows[j], data.positions.rows[i])
    IN  VScale(Div(Mul(Mul(G, Mass(data, i)), Mass(data, i)), Pow3(magnitude(r))), r)

pair_force(data, i, j) ==
    LET r == VSub(data.positions.rows[j], data.positions.rows[i])
    IN  VScale(Div(Mul(Mul(G, Mass(data, i)), Mass(data, j)), Pow3(magnitude(r))), r)

\* Mutant of force_on: a pair's force is applied to its first body only
\* (body i feels the bodies after it).
RECURSIVE force_on_LaterBodiesOnly(_, _, _)
force_on_LaterBodiesOnly(data, i, j) ==
    IF j = 0 THEN Zeros3
    ELSE IF j <= i THEN force_on_LaterBodiesOnly(data, i, j - 1)
    ELSE VAdd(force_on_LaterBodiesOnly(data, i, j - 1), pair_force(data, i, j))

RECURSIVE force_on(_, _, _)
force_on(data, i, j) ==
    IF j = 0 THEN Zeros3
    ELSE IF i = j THEN force_on(data, i, j - 1)
    ELSE VAdd(force_on(data, i, j - 1), pair_force(data, i, j))

force_rows(data) ==
    [shape |-> data.forces.shape,
     rows |-> [i \in 1..n_particles(data) |-> force_on(data, i, n_particles(data))]]

\* Mutant of compute_force: the calculator keeps the first ParticleData it
\* was given and computes the forces of that one.
compute_force_FirstInput(s, d) ==
    LET s1 == Alloc(s, force_rows(View(s, 1)))
    IN  [s1 EXCEPT !.ret = s1.new, !.counters.calc_force = @ + 1]

\* Mutant of compute_force: the result is accumulated in data.forces itself.
compute_force_InPlace(s, d) ==
    [s EXCEPT !.heap[s.objs[d].forces] = force_rows(View(s, d)),
              !.ret = s.objs[d].forces,
              !.new = s.objs[d].forces,
              !.counters.calc_force = @ + 1]

compute_force(s, d) ==
    LET s1 == Alloc(s, force_rows(View(s, d)))
    IN  [s1 EXCEPT !.ret = s1.new, !.counters.calc_force = @ + 1]

pair_energy(data, i, j) ==
    LET l == magnitude(VSub(data.positions.rows[j], data.positions.rows[i]))
    IN  Div(Mul(Mul(-G, Mass(data, i)), Mass(data, j)), l)

RECURSIVE energy_sum(_, _, _)
energy_sum(data, i, j) ==
    IF i = 0 THEN 0
    ELSE IF j = 0 THEN energy_sum(data, i - 1, n_particles(data))
    ELSE IF i = j THEN energy_sum(data, i, j - 1)
    ELSE Add(energy_sum(data, i, j - 1), pair_energy(data, i, j))

\* Mutant of compute_potential_energy: the double-counted sum is not halved.
compute_potential_energy_NotHalved(s, d) ==
    LET data == View(s, d)
        u == energy_sum(data, n_particles(data), n_particles(data))
    IN  [s EXCEPT !.ret = u]

compute_potential_energy(s, d) ==
    LET data == View(s, d)
        u == energy_sum(data, n_particles(data), n_particles(data))
    IN  [s EXCEPT !.ret = Div(u, 2)]

(***************************************************************************)
(* physics/force_calculator.py declares calc_force / calc_potential_energy;*)
(* the concrete direct calculator behind them computes the same sums.      *)
(***************************************************************************)
calc_force(s, d) == compute_force(s, d)

calc_potential_energy(s, d) == compute_potential_energy(s, d)

(***************************************************************************)
(* simulation/particle_system.py                                           *)
(***************************************************************************)
TheCalculator == 1

ParticleSystem(s, d, fc) ==
    [s EXCEPT !.systems = Append(@, [data |-> d, force_calculator |-> fc]),
              !.ret = Len(s.systems) + 1]

\* Mutant of ParticleSystem_copy: the new system is built over the same
\* ParticleData object.
ParticleSystem_copy_SharesData(s, sys) ==
    ParticleSystem(s, s.systems[sys].data, s.systems[sys].force_calculator)

ParticleSystem_copy(s, sys) ==
    LET s1 == copy(s, s.systems[sys].data)
    IN  ParticleSystem(s1, s1.ret, s.systems[sys].force_calculator)

\* Mutant of calc_forces: the forces are computed for the data of the first
\* system ever built (a calculator holding on to its first input).
calc_forces_FirstData(s, sys) ==
    LET d == s.systems[sys].data
        s1 == calc_force(s, s.systems[1].data)
        forces == s1.ret
        s2 == SetField(s1, d, "forces", forces)
    IN  [s2 EXCEPT !.ret = forces, !.counters.calc_forces = @ + 1,
                   !.counters.returned = forces]

\* Mutant of calc_forces: a copy of the result is stored, the result returned.
calc_forces_StoresCopy(s, sys) ==
    LET d == s.systems[sys].data
        s1 == calc_force(s, d)
        forces == s1.ret
        s2 == np_copy(s1, forces)
        s3 == SetField(s2, d, "forces", s2.new)
    IN  [s3 EXCEPT !.ret = forces, !.counters.calc_forces = @ + 1,
                   !.counters.returned = forces]

calc_forces(s, sys) ==
    LET d == s.systems[sys].data
        s1 == calc_force(s, d)
        forces == s1.ret
        s2 == SetField(s1, d, "forces", forces)
    IN  [s2 EXCEPT !.ret = forces, !.counters.calc_forces = @ + 1,
                   !.counters.returned = forces]

\* One body's term  masses[i] * velocities[i]**2 / 2.0 : masses[i] has shape
\* (1,), velocities[i] shape (3,), so the term is a vector of three numbers.
keenetic_term(data, i) ==
    VDivScalar(VScale(Mass(data, i),
                      [c \in 1..3 |-> Mul(data.velocities.rows[i][c], data.velocities.rows[i][c])]),
               2)

\* keenetic_energy after the first i bodies: the float 0.0 (shape ()) before
\* the first term is added, an array of shape (3,) from then on.
RECURSIVE keenetic_sum(_, _)
keenetic_sum(data, i) ==
    IF i = 0 THEN [shape |-> << >>, rows |-> 0]
    ELSE LET acc == keenetic_sum(data, i - 1)
         IN  [shape |-> <<3>>,
              rows |-> IF acc.shape = << >>
                       THEN [c \in 1..3 |-> Add(acc.rows, keenetic_term(data, i)[c])]
                       ELSE VAdd(acc.rows, keenetic_term(data, i))]

calc_keenetic_energy(s, sys) ==
    [s EXCEPT !.ret = keenetic_sum(View(s, s.systems[sys].data),
                                   n_particles(View(s, s.systems[sys].data)))]

(***************************************************************************)
(* integrators/euler.py, leapfrog.py, rk4.py                               *)
(***************************************************************************)
Data(s, sys) == s.systems[sys].data

Accelerations(s, d) == ArrDivCol(Forces(s, d), Masses(s, d))

\* Mutant of ExplicitEulerIntegrator_step: the forces are recomputed before
\* the positions are advanced.
ExplicitEulerIntegrator_step_ForcesFirst(s, sys, dt) ==
    LET d == Data(s, sys)
        s0 == calc_forces(s, sys)
        s1 == Bind(s0, d, "positions", ArrAdd(Positions(s0, d), ArrScale(Velocities(s0, d), dt)))
    IN  Bind(s1, d, "velocities",
             ArrAdd(Velocities(s1, d), ArrScale(ArrDivCol(Forces(s, d), Masses(s, d)), dt)))

\* Mutant of ExplicitEulerIntegrator_step: the velocities are advanced first
\* and the positions move with the new velocities (semi-implicit Euler).
ExplicitEulerIntegrator_step_VelocitiesFirst(s, sys, dt) ==
    LET d == Data(s, sys)
        s1 == Bind(s, d, "velocities",
                   ArrAdd(Velocities(s, d), ArrScale(Accelerations(s, d), dt)))
        s2 == Bind(s1, d, "positions",
                   ArrAdd(Positions(s1, d), ArrScale(Velocities(s1, d), dt)))
    IN  calc_forces(s2, sys)

ExplicitEulerIntegrator_step(s, sys, dt) ==
    LET d == Data(s, sys)
        s1 == Bind(s, d, "positions", ArrAdd(Positions(s, d), ArrScale(Velocities(s, d), dt)))
        s2 == Bind(s1, d, "velocities",
                   ArrAdd(Velocities(s1, d), ArrScale(Accelerations(s1, d), dt)))
    IN  calc_forces(s2, sys)

\* Mutant of Kick: the velocities are kicked with the forces already stored,
\* which are recomputed only afterwards.
Kick_StoredForces(s, sys, h) ==
    LET d == Data(s, sys)
        s1 == Bind(s, d, "velocities",
                   ArrAdd(Velocities(s, d), ArrScale(Accelerations(s, d), h)))
    IN  calc_forces(s1, sys)

Kick(s, sys, h) ==
    LET d == Data(s, sys)
        s1 == calc_forces(s, sys)
    IN  Bind(s1, d, "velocities",
             ArrAdd(Velocities(s1, d), ArrScale(Accelerations(s1, d), h)))

\* Mutant of Drift: the positions array is advanced in place
\* (positions += velocities * dt).
Drift_InPlace(s, sys, dt) ==
    LET d == Data(s, sys)
    IN  [s EXCEPT !.heap[s.objs[d].positions] =
                      ArrAdd(Positions(s, d), ArrScale(Velocities(s, d), dt))]

\* Mutant of Drift: the new positions are stored transposed, as a (3, n)
\* array.
Drift_Transposed(s, sys, dt) ==
    LET d == Data(s, sys)
        moved == ArrAdd(Positions(s, d), ArrScale(Velocities(s, d), dt))
    IN  Bind(s, d, "positions", [moved EXCEPT !.shape = <<3, len(moved)>>])

Drift(s, sys, dt) ==
    LET d == Data(s, sys)
    IN  Bind(s, d, "positions", ArrAdd(Positions(s, d), ArrScale(Velocities(s, d), dt)))

\* Mutant of LFIntegrator_step: drift-kick-kick, the positions move before
\* the first half kick.
LFIntegrator_step_DriftFirst(s, sys, dt) ==
    Kick(Kick(Drift(s, sys, dt), sys, Div(dt, 2)), sys, Div(dt, 2))

LFIntegrator_step(s, sys, dt) ==
    Kick(Drift(Kick(s, sys, Div(dt, 2)), sys, dt), sys, Div(dt, 2))

\* The locals of RK4Integrator.step: c.s is the program state, pos0 and vel0
\* the entry copies, k_x and k_v the stage derivatives computed so far.
RK4Begin(s, sys) ==
    [s |-> s, pos0 |-> Positions(s, Data(s, sys)), vel0 |-> Velocities(s, Data(s, sys)),
     k_x |-> << >>, k_v |-> << >>]

RK4Eval(c, sys) ==
    LET d == Data(c.s, sys)
        s1 == calc_forces(c.s, sys)
    IN  [c EXCEPT !.s = s1,
                  !.k_v = Append(@, Accelerations(s1, d)),
                  !.k_x = Append(@, Velocities(s1, d))]

\* Mutant of RK4Move: the stage state is advanced from the state the previous
\* stage left, not from the entry copies pos0, vel0.
RK4Move_FromCurrent(c, sys, h) ==
    LET d == Data(c.s, sys)
        k == Len(c.k_x)
        s1 == Bind(c.s, d, "positions", ArrAdd(Positions(c.s, d), ArrScale(c.k_x[k], h)))
    IN  [c EXCEPT !.s = Bind(s1, d, "velocities",
                             ArrAdd(Velocities(s1, d), ArrScale(c.k_v[k], h)))]

RK4Move(c, sys, h) ==
    LET d == Data(c.s, sys)
        k == Len(c.k_x)
        s1 == Bind(c.s, d, "positions", ArrAdd(c.pos0, ArrScale(c.k_x[k], h)))
    IN  [c EXCEPT !.s = Bind(s1, d, "velocities", ArrAdd(c.vel0, ArrScale(c.k_v[k], h)))]

RK4Stage(c, sys, h) == RK4Eval(RK4Move(c, sys, h), sys)

RK4Sum(k) == ArrAdd(ArrAdd(ArrAdd(k[1], ArrScale(k[2], 2)), ArrScale(k[3], 2)), k[4])

RK4Final(c, sys, dt) ==
    LET d == Data(c.s, sys)
        s1 == Bind(c.s, d, "positions", ArrAdd(c.pos0, ArrScale(RK4Sum(c.k_x), Div(dt, 6))))
        s2 == Bind(s1, d, "velocities", ArrAdd(c.vel0, ArrScale(RK4Sum(c.k_v), Div(dt, 6))))
    IN  calc_forces(s2, sys)

RK4Integrator_step(s, sys, dt) ==
    RK4Final(
        RK4Stage(
            RK4Stage(
                RK4Stage(RK4Eval(RK4Begin(s, sys), sys), sys, Div(dt, 2)),
                sys, Div(dt, 2)),
            sys, dt),
        sys, dt)

Integrators == {"ExplicitEuler", "LF", "RK4"}

Integrator_step(kind, s, sys, dt) ==
    LET t == [s EXCEPT !.counters.integrator_step = @ + 1]
        u == CASE kind = "ExplicitEuler" -> ExplicitEulerIntegrator_step(t, sys, dt)
               [] kind = "LF" -> LFIntegrator_step(t, sys, dt)
               [] kind = "RK4" -> RK4Integrator_step(t, sys, dt)
    IN  [u EXCEPT !.ret = sys]

(***************************************************************************)
(* integrators/RK4_integrator.py: the generic step(f, t, y, dt).  y and    *)
(* the values of f are numpy values of one shape, held here as the flat    *)
(* tuple of their elements (a Python float is the tuple of one element);   *)
(* the callable f is a record naming the right-hand side, applied by Call. *)
(***************************************************************************)
\* tests/test_integrators.py:  def f(_, y): return y
test_f == [name |-> "f"]

\* The right-hand side of the N-body system over y = (positions,
\* velocities):  f(t, y) = (velocities, force(positions) / masses).
system_f(masses) == [name |-> "system", masses |-> masses]

Flat(a) == [i \in 1..(3 * len(a)) |-> a.rows[((i - 1) \div 3) + 1][((i - 1) % 3) + 1]]

Unflat(y, from, n) ==
    [shape |-> <<n, 3>>,
     rows |-> [i \in 1..n |-> [c \in 1..3 |-> y[from + 3 * (i - 1) + c]]]]

StateVector(data) == Flat(data.positions) \o Flat(data.velocities)

SystemDerivative(masses, y) ==
    LET n == len(masses)
        data == [masses |-> masses, positions |-> Unflat(y, 0, n),
                 velocities |-> Unflat(y, 3 * n, n), forces |-> zeros(n, 3)]
    IN  Flat(data.velocities) \o Flat(ArrDivCol(force_rows(data), masses))

Call(f, t, y) ==
    CASE f.name = "f" -> y
      [] f.name = "system" -> SystemDerivative(f.masses, y)

\* Mutant of RK4_integrator_step: the third stage is evaluated from k1.
RK4_integrator_step_K3FromK1(f, t, y, dt) ==
    LET k1 == Call(f, t, y)
        k2 == Call(f, Add(t, Div(dt, 2)), VAdd(y, VScale(Div(dt, 2), k1)))
        k3 == Call(f, Add(t, Div(dt, 2)), VAdd(y, VScale(Div(dt, 2), k1)))
        k4 == Call(f, Add(t, dt), VAdd(y, VScale(dt, k3)))
    IN  VAdd(y, VScale(Div(dt, 6),
                       VAdd(VAdd(VAdd(k1, VScale(2, k2)), VScale(2, k3)), k4)))

\* Mutant of RK4_integrator_step: the last stage is evaluated half a step in.
RK4_integrator_step_K4HalfStep(f, t, y, dt) ==
    LET k1 == Call(f, t, y)
        k2 == Call(f, Add(t, Div(dt, 2)), VAdd(y, VScale(Div(dt, 2), k1)))
        k3 == Call(f, Add(t, Div(dt, 2)), VAdd(y, VScale(Div(dt, 2), k2)))
        k4 == Call(f, Add(t, dt), VAdd(y, VScale(Div(dt, 2), k3)))
    IN  VAdd(y, VScale(Div(dt, 6),
                       VAdd(VAdd(VAdd(k1, VScale(2, k2)), VScale(2, k3)), k4)))

RK4_integrator_step(f, t, y, dt) ==
    LET k1 == Call(f, t, y)
        k2 == Call(f, Add(t, Div(dt, 2)), VAdd(y, VScale(Div(dt, 2), k1)))
        k3 == Call(f, Add(t, Div(dt, 2)), VAdd(y, VScale(Div(dt, 2), k2)))
        k4 == Call(f, Add(t, dt), VAdd(y, VScale(dt, k3)))
    IN  VAdd(y, VScale(Div(dt, 6),
                       VAdd(VAdd(VAdd(k1, VScale(2, k2)), VScale(2, k3)), k4)))

(***************************************************************************)
(* simulation/simulation.py                                                *)
(***************************************************************************)
\* Mutant of Simulation: the system wraps a copy of the given ParticleData.
Simulation_WrapsCopy(s, d, force_calculator, integrator, dt) ==
    LET s0 == copy(s, d)
        s1 == ParticleSystem(s0, s0.ret, force_calculator)
    IN  [s1 EXCEPT !.sims = Append(@, [system |-> s1.ret, integrator |-> integrator,
                                       dt |-> dt, time |-> 0]),
                   !.ret = Len(s1.sims) + 1]

Simulation(s, d, force_calculator, integrator, dt) ==
    LET s1 == ParticleSystem(s, d, force_calculator)
    IN  [s1 EXCEPT !.sims = Append(@, [system |-> s1.ret, integrator |-> integrator,
                                       dt |-> dt, time |-> 0]),
                   !.ret = Len(s1.sims) + 1]

\* Mutant of Simulation_step: a copy of the system is stepped and becomes
\* the simulation's system.
Simulation_step_StepsCopy(s, sim) ==
    LET self == s.sims[sim]
        s0 == ParticleSystem_copy(s, self.system)
        s1 == Integrator_step(self.integrator, s0, s0.ret, self.dt)
    IN  [s1 EXCEPT !.sims[sim].system = s0.ret,
                   !.sims[sim].time = Add(@, self.dt), !.ret = None]

\* Mutant of Simulation_step: the clock is assigned dt instead of advanced by dt.
Simulation_step_AssignsTime(s, sim) ==
    LET self == s.sims[sim]
        s1 == Integrator_step(self.integrator, s, self.system, self.dt)
    IN  [s1 EXCEPT !.sims[sim].time = self.dt, !.ret = None]

Simulation_step(s, sim) ==
    LET self == s.sims[sim]
        s1 == Integrator_step(self.integrator, s, self.system, self.dt)
    IN  [s1 EXCEPT !.sims[sim].time = Add(@, self.dt), !.ret = None]

get_data(s, sim) == s.systems[s.sims[sim].system].data

(***************************************************************************)
(* Inputs of the runs: initial conditions as the drivers under examples/   *)
(* and tests/ build them (masses (n,1), positions and velocities (n,3),    *)
(* forces usually omitted), an integrator and a step size.                 *)
(***************************************************************************)
InitialConditions ==
    { [m |-> << <<100>>, <<30>> >>,
       p |-> << <<0, 0, 0>>, <<10, 0, 0>> >>,
       v |-> << <<0, 0, 0>>, <<0, 1, 0>> >>,
       f |-> << >>],
      [m |-> << <<40>>, <<40>> >>,
       p |-> << <<0, 0, 0>>, <<0, 6, 0>> >>,
       v |-> << <<1, 0, 0>>, <<-1, 0, 0>> >>,
       f |-> << >>],
      [m |-> << <<100>>, <<30>>, <<20>> >>,
       p |-> << <<0, 0, 0>>, <<10, 0, 0>>, <<0, -8, 0>> >>,
       v |-> << <<0, 0, 0>>, <<0, 1, 0>>, <<1, 0, 0>> >>,
       f |-> << >>],
      [m |-> << <<30>> >>,
       p |-> << <<1, 1, 1>> >>,
       v |-> << <<1, 0, -1>> >>,
       f |-> << >>],
      [m |-> << <<100>>, <<30>> >>,
       p |-> << <<0, 0, 0>>, <<10, 0, 0>> >>,
       v |-> << <<0, 0, 0>>, <<0, 1, 0>> >>,
       f |-> << <<200, 0, 0>>, <<-60, 30, 0>> >>],
      [m |-> << <<30>>, <<20>> >>,
       p |-> << <<1, 0, 0>>, <<1, 0, 0>> >>,
       v |-> << <<0, 0, 0>>, <<0, 0, 0>> >>,
       f |-> << >>] }

DTs == {2, 6}

NewData(s, ic) ==
    LET s1 == Alloc(s, Arr(ic.m, 1))
        s2 == Alloc(s1, Arr(ic.p, 3))
        s3 == Alloc(s2, Arr(ic.v, 3))
        s4 == IF ic.f = << >> THEN [s3 EXCEPT !.new = None] ELSE Alloc(s3, Arr(ic.f, 3))
    IN  ParticleData(s4, s1.new, s2.new, s3.new, s4.new)

NewSimulation(s, ic, integrator, dt) ==
    LET s1 == NewData(s, ic)
    IN  Simulation(s1, s1.ret, TheCalculator, integrator, dt)

(***************************************************************************)
(* Spec: two simulations A (1) and B (2) built from equal initial          *)
(* conditions with separate ParticleData, stepped in any interleaving; the *)
(* system of A may be copied once and the copy stepped on its own.         *)
(***************************************************************************)
SimA == 1

SimB == 2

\* Reference for the run: the states a simulation built from the same initial
\* conditions passes through when it is the only simulation of the program
\* (k steps from s, each step applied to the state the previous one left).
RECURSIVE StepsAlone(_, _)
StepsAlone(s, k) ==
    IF k = 0 THEN s
    ELSE CHOOSE r \in {Simulation_step(x, 1) : x \in {StepsAlone(s, k - 1)}} : TRUE

AloneRun(ic, integrator, dt) ==
    [k \in 0..MaxSteps |->
        CHOOSE r \in {[data |-> View(s, get_data(s, 1)), time |-> s.sims[1].time] :
                          s \in {StepsAlone(NewSimulation(Empty, ic, integrator, dt), k)}} : TRUE]

Init ==
    \E ic \in InitialConditions, integrator \in Integrators, dt \in DTs :
        LET s == NewSimulation(NewSimulation(Empty, ic, integrator, dt), ic, integrator, dt)
        IN  /\ heap = s.heap
            /\ objs = s.objs
            /\ systems = s.systems
            /\ sims = s.sims
            /\ counters = s.counters
            /\ ret = s.ret
            /\ err = s.err
            /\ last = [op |-> "init", obj |-> None]
            /\ scen = [nsteps |-> <<0, 0>>, copy |-> None, copiedAt |-> 0, resumed |-> 0,
                       alone |-> AloneRun(ic, integrator, dt)]

Step(sim) ==
    /\ scen.nsteps[sim] < MaxSteps
    /\ Commit(Simulation_step(St, sim))
    /\ last' = [op |-> "step", obj |-> sim]
    /\ scen' = [scen EXCEPT !.nsteps[sim] = @ + 1]

SystemCopy ==
    /\ scen.copy = None
    /\ LET s == ParticleSystem_copy(St, sims[SimA].system)
       IN  /\ Commit(s)
           /\ last' = [op |-> "system_copy", obj |-> s.ret]
           /\ scen' = [scen EXCEPT !.copy = s.ret, !.copiedAt = scen.nsteps[SimA]]

ResumeStep ==
    /\ scen.copy # None
    /\ scen.copiedAt + scen.resumed < MaxSteps
    /\ Commit(Integrator_step(sims[SimA].integrator, St, scen.copy, sims[SimA].dt))
    /\ last' = [op |-> "resume_step", obj |-> scen.copy]
    /\ scen' = [scen EXCEPT !.resumed = @ + 1]

Next ==
    \/ \E sim \in {SimA, SimB} : Step(sim)
    \/ SystemCopy
    \/ ResumeStep

Spec == Init /\ [][Next]_vars

(***************************************************************************)
(* Claims checked under Spec                                               *)
(***************************************************************************)
Sims == {SimA, SimB}

DataOf(sim) == get_data(St, sim)

StateOf(d) == View(St, d)

Dynamic(d) ==
    [positions |-> Positions(St, d), velocities |-> Velocities(St, d),
     forces |-> Forces(St, d)]

\* C1: a Simulation starts at time 0; every Simulation.step() runs
\* integrator.step once and adds dt to time once, so after k calls time is
\* k*dt; no other operation (stepping another simulation, copying a system,
\* stepping the copy) changes time.
C1_TimeIsStepsTimesDt ==
    /\ \A sim \in Sims : sims[sim].time = scen.nsteps[sim] * sims[sim].dt
    /\ counters.integrator_step = scen.nsteps[SimA] + scen.nsteps[SimB] + scen.resumed

C1_Witness ==
    /\ scen.nsteps = <<2, 1>>
    /\ scen.resumed = 1
    /\ sims[SimA].time = 12
    /\ sims[SimB].time = 6

\* C4: two simulations built from equal initial conditions (separate
\* ParticleData), the same dt and integrator hold equal masses, positions,
\* velocities, forces and time whenever they have made equally many steps,
\* whatever the interleaving of their steps.
C4_Deterministic ==
    scen.nsteps[SimA] = scen.nsteps[SimB] =>
        /\ StateOf(DataOf(SimA)) = StateOf(DataOf(SimB))
        /\ sims[SimA].time = sims[SimB].time

C4_Witness ==
    /\ scen.nsteps = <<2, 2>>
    /\ DataOf(SimA) # DataOf(SimB)
    /\ Forces(St, DataOf(SimA)) # zeros(len(Forces(St, DataOf(SimA))), 3)
    /\ Positions(St, DataOf(SimA)) = Positions(St, DataOf(SimB))

\* C5: stepping n times, copying the ParticleSystem and stepping the copy m
\* times gives the positions, velocities and forces of n+m uninterrupted
\* steps, for each integrator.
C5_ResumeEqualsUninterrupted ==
    scen.copy # None =>
        \A sim \in Sims :
            scen.nsteps[sim] = scen.copiedAt + scen.resumed =>
                Dynamic(Data(St, scen.copy)) = Dynamic(DataOf(sim))

C5_Witness ==
    /\ scen.copy # None
    /\ scen.copiedAt = 1
    /\ scen.resumed = 1
    /\ scen.nsteps[SimA] = 2
    /\ Forces(St, DataOf(SimA)) # zeros(len(Forces(St, DataOf(SimA))), 3)

\* C6: after a step of any integrator the forces field holds what the force
\* calculator computes for the positions the system then holds.
Stepped ==
    {sims[sim].system : sim \in {x \in Sims : scen.nsteps[x] > 0}}
        \cup (IF scen.resumed > 0 THEN {scen.copy} ELSE {})

C6_ForcesConsistentOnReturn ==
    \A sys \in Stepped :
        Forces(St, Data(St, sys)) = force_rows(StateOf(Data(St, sys)))

C6_Witness ==
    /\ last.op = "step"
    /\ sims[last.obj].integrator = "ExplicitEuler"
    /\ Forces(St, DataOf(last.obj)) # zeros(len(Forces(St, DataOf(last.obj))), 3)
    /\ NonFinite \notin {Forces(St, DataOf(last.obj)).rows[1][c] : c \in 1..3}

\* C7: calc_forces stores the calculator's result in the forces field and
\* returns that same array, and the forces field is written nowhere else:
\* the number of writes of a forces field equals the number of calc_forces
\* calls, and after a step the array last returned is the one the stepped
\* state holds.
C7_SingleMutationPoint ==
    /\ counters.force_writes = counters.calc_forces
    /\ last.op = "step" => counters.returned = St.objs[DataOf(last.obj)].forces
    /\ last.op = "resume_step" => counters.returned = St.objs[Data(St, last.obj)].forces
    /\ last.op \in {"step", "resume_step"} =>
           heap[counters.returned] =
               force_rows(StateOf(IF last.op = "step" THEN DataOf(last.obj)
                                  ELSE Data(St, last.obj)))

C7_Witness ==
    /\ last.op = "step"
    /\ sims[last.obj].integrator = "RK4"
    /\ counters.calc_forces >= 10
    /\ counters.force_writes = counters.calc_forces

\* C13: ParticleSystem.copy() returns a new system over a new ParticleData
\* whose four arrays equal the original's and live in storage of their own,
\* with the original's force calculator; the original is left as it was;
\* afterwards a step on the copy leaves the original's state unchanged and a
\* step on the original leaves the copy's state unchanged.
C13_SystemCopyIndependent ==
    [][ /\ last'.op = "system_copy" =>
               /\ last'.obj = Len(systems) + 1
               /\ systems'[last'.obj].force_calculator
                      = systems[sims[SimA].system].force_calculator
               /\ systems'[last'.obj].data > Len(objs)
               /\ \A f \in {"masses", "positions", "velocities", "forces"} :
                      objs'[systems'[last'.obj].data][f] > Len(heap)
               /\ View([heap |-> heap', objs |-> objs'], systems'[last'.obj].data)
                      = StateOf(DataOf(SimA))
               /\ View([heap |-> heap', objs |-> objs'], DataOf(SimA)) = StateOf(DataOf(SimA))
        /\ last'.op = "resume_step" =>
               /\ View([heap |-> heap', objs |-> objs'], DataOf(SimA)) = StateOf(DataOf(SimA))
               /\ systems'[sims[SimA].system] = systems[sims[SimA].system]
        /\ (last'.op = "step" /\ last'.obj = SimA /\ scen.copy # None) =>
               /\ View([heap |-> heap', objs |-> objs'], Data(St, scen.copy))
                      = StateOf(Data(St, scen.copy))
               /\ systems'[scen.copy] = systems[scen.copy]
      ]_vars

C13_Witness ==
    /\ scen.copy # None
    /\ scen.copiedAt = 0
    /\ scen.resumed = 1
    /\ scen.nsteps[SimA] = 2
    /\ last.op = "step"
    /\ last.obj = SimA
    /\ systems[scen.copy].force_calculator = systems[sims[SimA].system].force_calculator
    /\ Dynamic(Data(St, scen.copy)).positions # Dynamic(DataOf(SimA)).positions

\* C15: two simulations with separate ParticleData that share one force
\* calculator (and one kind of integrator): under every interleaving of
\* their steps each holds the state and time it reaches after the same
\* number of steps when run alone, and every system still refers to the
\* one calculator.
C15_SharedCalculator ==
    /\ \A sim \in Sims :
           [data |-> StateOf(DataOf(sim)), time |-> sims[sim].time]
               = scen.alone[scen.nsteps[sim]]
    /\ \A sys \in 1..Len(systems) : systems[sys].force_calculator = TheCalculator

C15_Witness ==
    /\ scen.nsteps = <<2, 1>>
    /\ last.op = "step"
    /\ last.obj = SimB
    /\ systems[sims[SimA].system].force_calculator = systems[sims[SimB].system].force_calculator
    /\ DataOf(SimA) # DataOf(SimB)
    /\ StateOf(DataOf(SimA)).positions # StateOf(DataOf(SimB)).positions
    /\ NonFinite \notin {StateOf(DataOf(SimB)).forces.rows[1][c] : c \in 1..3}

(***************************************************************************)
(* SpecData: a caller holding a pool of numpy arrays, some of them of the  *)
(* wrong shape, builds ParticleData objects from them, copies objects,     *)
(* stores into arrays in place and steps objects wrapped in a system.      *)
(***************************************************************************)
InputArrays ==
    << Arr(<< <<100>>, <<30>> >>, 1),
       [shape |-> <<2>>, rows |-> <<100, 30>>],
       Arr(<< <<100>>, <<30>>, <<20>> >>, 1),
       Arr(<< <<0, 0, 0>>, <<10, 0, 0>> >>, 3),
       Arr(<< <<0, 0, 0>>, <<10, 0, 0>>, <<0, -8, 0>> >>, 3),
       Arr(<< <<0, 0, 0>>, <<0, 1, 0>> >>, 3),
       Arr(<< <<0, 0>>, <<0, 1>> >>, 2),
       Arr(<< <<0, 0, 0>>, <<0, 1, 0>>, <<1, 0, 0>> >>, 3),
       Arr(<< <<200, 0, 0>>, <<-60, 30, 0>> >>, 3),
       Arr(<< <<200, 0, 0>> >>, 3) >>

MassArgs == {1, 2, 3}

PositionArgs == {4, 5}

VelocityArgs == {6, 7, 8}

ForceArgs == {None, 9, 10}

Fields == {"masses", "positions", "velocities", "forces"}

StoredValue == 7

DataDt == 2

\* a[i][c] = v on the array at address a
Store(s, a, i, c, v) == [s EXCEPT !.heap[a].rows[i][c] = v]

InitData ==
    /\ heap = InputArrays
    /\ objs = << >>
    /\ systems = << >>
    /\ sims = << >>
    /\ counters = NoCounts
    /\ ret = None
    /\ err = NoError
    /\ last = [op |-> "init", obj |-> None, args |-> << >>, nobjs |-> 0]
    /\ scen = [ops |-> 0, copies |-> {}]

DataConstruct(m, p, v, f) ==
    /\ scen.ops < MaxDataOps
    /\ LET s == ParticleData(St, m, p, v, f)
       IN  /\ Commit(s)
           /\ last' = [op |-> "construct", obj |-> s.ret, args |-> <<m, p, v, f>>,
                       nobjs |-> Len(objs)]
    /\ scen' = [scen EXCEPT !.ops = @ + 1]

DataCopy(d) ==
    /\ scen.ops < MaxDataOps
    /\ LET s == copy(St, d)
       IN  /\ Commit(s)
           /\ last' = [op |-> "copy", obj |-> s.ret, args |-> <<d>>, nobjs |-> Len(objs)]
           /\ scen' = [scen EXCEPT !.ops = @ + 1,
                                   !.copies = @ \cup {[orig |-> d, copy |-> s.ret]}]

DataWrite(d, f) ==
    /\ scen.ops < MaxDataOps
    /\ Commit(Store(St, objs[d][f], 1, 1, StoredValue))
    /\ last' = [op |-> "write", obj |-> d, args |-> <<f>>, nobjs |-> Len(objs)]
    /\ scen' = [scen EXCEPT !.ops = @ + 1]

DataStep(d, kind) ==
    /\ scen.ops < MaxDataOps
    /\ LET s == ParticleSystem(St, d, TheCalculator)
       IN  Commit(Integrator_step(kind, s, s.ret, DataDt))
    /\ last' = [op |-> "step", obj |-> d, args |-> <<kind>>, nobjs |-> Len(objs)]
    /\ scen' = [scen EXCEPT !.ops = @ + 1]

NextData ==
    \/ \E m \in MassArgs, p \in PositionArgs, v \in VelocityArgs, f \in ForceArgs :
           DataConstruct(m, p, v, f)
    \/ \E d \in 1..Len(objs) : DataCopy(d)
    \/ \E d \in 1..Len(objs), f \in Fields : DataWrite(d, f)
    \/ \E d \in 1..Len(objs), kind \in Integrators : DataStep(d, kind)

SpecData == InitData /\ [][NextData]_vars

(***************************************************************************)
(* Claims checked under SpecData                                           *)
(***************************************************************************)
WellShaped(d) ==
    LET n == len(StateOf(d).masses)
    IN  /\ StateOf(d).masses.shape = <<n, 1>>
        /\ StateOf(d).positions.shape = <<n, 3>>
        /\ StateOf(d).velocities.shape = <<n, 3>>
        /\ StateOf(d).forces.shape = <<n, 3>>

\* The error the claim expects for arrays of the given shapes (f is << >>
\* when no forces are supplied): the first malformed array in the order
\* masses, positions, velocities, forces, with N the length of masses.
ExpectedError(m, p, v, f) ==
    LET N == m[1]
    IN  IF ~(Len(m) = 2 /\ m[2] = 1) THEN "masses must have shape (n, 1)"
        ELSE IF p # <<N, 3>> THEN "position must have shape (n, 3)"
        ELSE IF v # <<N, 3>> THEN "velocity must have shape (n, 3)"
        ELSE IF f # << >> /\ f # <<N, 3>> THEN "force must have shape (n, 3)"
        ELSE NoError

ShapeOfArg(a) == IF a = None THEN << >> ELSE heap[a].shape

\* C2: constructing a ParticleData raises the shape error naming the first
\* malformed array in the order masses, positions, velocities, forces and
\* creates no object; a construction of well-shaped arrays raises nothing
\* and creates exactly one object; so every object that exists (and can be
\* stepped) is well-shaped.
C2_ShapeErrorAtConstruction ==
    /\ \A d \in 1..Len(objs) : WellShaped(d)
    /\ last.op = "construct" =>
           LET expected == ExpectedError(ShapeOfArg(last.args[1]), ShapeOfArg(last.args[2]),
                                         ShapeOfArg(last.args[3]), ShapeOfArg(last.args[4]))
           IN  /\ err = expected
               /\ expected # NoError => ret = None /\ Len(objs) = last.nobjs
               /\ expected = NoError => ret = Len(objs) /\ Len(objs) = last.nobjs + 1

C2_Witness ==
    /\ last.op = "construct"
    /\ last.args = <<2, 5, 7, 10>>
    /\ err = "masses must have shape (n, 1)"
    /\ ret = None
    /\ Len(objs) = 1

ViewNext(d) == View([heap |-> heap', objs |-> objs'], d)

\* C3: ParticleData.copy() returns an object whose four arrays equal the
\* original's at copy time and live in storage created by the copy; from
\* then on an in-place store into, or an integration step on, the copy
\* leaves the original unchanged, and one on the original leaves the copy
\* unchanged.
C3_DeepCopy ==
    [][ /\ last'.op = "copy" =>
               /\ ViewNext(last'.obj) = StateOf(last'.args[1])
               /\ ViewNext(last'.args[1]) = StateOf(last'.args[1])
               /\ \A f \in Fields : objs'[last'.obj][f] > Len(heap)
               /\ Cardinality({objs'[last'.obj][f] : f \in Fields}) = 4
        /\ last'.op \in {"write", "step"} =>
               \A rec \in scen.copies :
                   /\ last'.obj = rec.copy => ViewNext(rec.orig) = StateOf(rec.orig)
                   /\ last'.obj = rec.orig => ViewNext(rec.copy) = StateOf(rec.copy)
      ]_vars

C3_Witness ==
    /\ last.op = "write"
    /\ last.args = <<"positions">>
    /\ \E rec \in scen.copies :
           /\ last.obj = rec.copy
           /\ StateOf(rec.orig).positions # StateOf(rec.copy).positions
           /\ StateOf(rec.orig).masses = StateOf(rec.copy).masses
           /\ objs[rec.orig].forces # objs[rec.copy].forces

\* C14: a ParticleData constructed without forces holds an N x 3 array of
\* zeros as its forces (N the number of masses); one constructed with a
\* valid N x 3 forces array holds that array, with the values it had.
C14_DefaultForcesZero ==
    [][ (last'.op = "construct" /\ err' = NoError) =>
            /\ last'.args[4] = None =>
                   /\ ViewNext(ret').forces = zeros(len(heap[last'.args[1]]), 3)
                   /\ objs'[ret'].forces > Len(heap)
            /\ last'.args[4] # None =>
                   /\ objs'[ret'].forces = last'.args[4]
                   /\ ViewNext(ret').forces = heap[last'.args[4]]
      ]_vars

C14_Witness ==
    /\ last.op = "construct"
    /\ err = NoError
    /\ last.args = <<1, 4, 6, 9>>
    /\ objs[ret].forces = 9
    /\ StateOf(ret).forces = Arr(<< <<200, 0, 0>>, <<-60, 30, 0>> >>, 3)
    /\ \E d \in 1..Len(objs) : StateOf(d).forces = zeros(2, 3)

(***************************************************************************)
(* SpecForce: the direct force calculator applied to one ParticleData of   *)
(* one to three bodies, with masses and positions drawn from small sets    *)
(* (coincident bodies included) and the forces field either left to the    *)
(* constructor or supplied.                                                *)
(***************************************************************************)
BodyCounts == {1, 2, 3}

MassValues == {30, 100}

Points == {<<0, 0, 0>>, <<10, 0, 0>>, <<0, -8, 0>>, <<3, 4, 0>>}

TheData == 1

Bodies(ms, ps, supplied) ==
    [m |-> [i \in 1..Len(ms) |-> <<ms[i]>>],
     p |-> ps,
     v |-> [i \in 1..Len(ms) |-> <<1, 0, -1>>],
     f |-> IF supplied THEN [i \in 1..Len(ms) |-> <<5, 0, -5>>] ELSE << >>]

InitForce ==
    \E n \in BodyCounts :
        \E ms \in [1..n -> MassValues], ps \in [1..n -> Points], supplied \in BOOLEAN :
            LET s == NewData(Empty, Bodies(ms, ps, supplied))
            IN  /\ heap = s.heap
                /\ objs = s.objs
                /\ systems = s.systems
                /\ sims = s.sims
                /\ counters = s.counters
                /\ ret = s.ret
                /\ err = s.err
                /\ last = [op |-> "init", obj |-> None]
                /\ scen = [calls |-> 0, data0 |-> View(s, TheData), objs0 |-> s.objs]

ComputeForce ==
    /\ scen.calls < MaxCalls
    /\ Commit(compute_force(St, TheData))
    /\ last' = [op |-> "compute_force", obj |-> TheData]
    /\ scen' = [scen EXCEPT !.calls = @ + 1]

ComputePotentialEnergy ==
    /\ scen.calls < MaxCalls
    /\ Commit(compute_potential_energy(St, TheData))
    /\ last' = [op |-> "compute_potential_energy", obj |-> TheData]
    /\ scen' = [scen EXCEPT !.calls = @ + 1]

NextForce ==
    \/ ComputeForce
    \/ ComputePotentialEnergy

SpecForce == InitForce /\ [][NextForce]_vars

(***************************************************************************)
(* Claims checked under SpecForce                                          *)
(***************************************************************************)
\* C8: compute_force and compute_potential_energy leave the masses,
\* positions, velocities and stored forces of the ParticleData they are
\* given as they were (the object still refers to the same four arrays
\* with the same contents), and the array compute_force returns is none of
\* the object's arrays.
C8_CalculatorReadOnly ==
    /\ objs = scen.objs0
    /\ StateOf(TheData) = scen.data0
    /\ last.op = "compute_force" =>
           /\ ret \notin {objs[TheData][f] : f \in Fields}
           /\ heap[ret] = force_rows(scen.data0)

C8_Witness ==
    /\ last.op = "compute_force"
    /\ scen.calls = 2
    /\ Forces(St, TheData) = Arr(<< <<5, 0, -5>>, <<5, 0, -5>> >>, 3)
    /\ heap[ret] # Forces(St, TheData)
    /\ heap[ret] # zeros(2, 3)

DistinctPositions(data) ==
    \A i, j \in 1..n_particles(data) :
        i # j => data.positions.rows[i] # data.positions.rows[j]

RECURSIVE RowSum(_, _)
RowSum(a, k) == IF k = 0 THEN Zeros3 ELSE VAdd(RowSum(a, k - 1), a.rows[k])

\* C9: for distinct positions and every i # j the contribution to the force
\* on i due to j is the negation of the contribution to the force on j due
\* to i, and the rows of the array compute_force returns sum to the zero
\* vector.
C9_PairwiseAntisymmetric ==
    DistinctPositions(StateOf(TheData)) =>
        /\ \A i, j \in 1..n_particles(StateOf(TheData)) :
               i # j => pair_force(StateOf(TheData), i, j)
                            = VScale(-1, pair_force(StateOf(TheData), j, i))
        /\ last.op = "compute_force" => RowSum(heap[ret], len(heap[ret])) = Zeros3

C9_Witness ==
    /\ last.op = "compute_force"
    /\ n_particles(StateOf(TheData)) = 3
    /\ DistinctPositions(StateOf(TheData))
    /\ Mass(StateOf(TheData), 1) # Mass(StateOf(TheData), 2)
    /\ \A i \in 1..3 : heap[ret].rows[i] # Zeros3

PairsOnce(n) == {pr \in (1..n) \X (1..n) : pr[1] < pr[2]}

RECURSIVE SumOverPairs(_, _)
SumOverPairs(data, S) ==
    IF S = {} THEN 0
    ELSE LET pr == CHOOSE x \in S : TRUE
         IN  Add(Div(-G * Mass(data, pr[1]) * Mass(data, pr[2]),
                     magnitude(VSub(data.positions.rows[pr[2]], data.positions.rows[pr[1]]))),
                 SumOverPairs(data, S \ {pr}))

\* C10: compute_potential_energy returns the sum over the pairs i < j of
\* -G * m_i * m_j / |r_j - r_i|, each unordered pair once and no self term;
\* for a single body it returns 0.
C10_PotentialCountsPairsOnce ==
    last.op = "compute_potential_energy" =>
        /\ ret = SumOverPairs(StateOf(TheData), PairsOnce(n_particles(StateOf(TheData))))
        /\ n_particles(StateOf(TheData)) = 1 => ret = 0

C10_Witness ==
    /\ last.op = "compute_potential_energy"
    /\ n_particles(StateOf(TheData)) = 3
    /\ DistinctPositions(StateOf(TheData))
    /\ ret < 0
    /\ ret # NonFinite

(***************************************************************************)
(* SpecSim: one simulation, stepped by its driver, which also asks for the *)
(* data (get_data) and for the kinetic energy of the system between steps. *)
(* The initial conditions are those of Spec, two bodies that start at the  *)
(* same point and move apart, and a drifting pair.  scen.given is what the driver handed to *)
(* Simulation(...): its ParticleData object and the heap, objects and call *)
(* counts as they were just before the construction.                       *)
(***************************************************************************)
CoincidentApart ==
    [m |-> << <<30>>, <<20>> >>,
     p |-> << <<1, 0, 0>>, <<1, 0, 0>> >>,
     v |-> << <<1, 0, 0>>, <<-1, 0, 0>> >>,
     f |-> << >>]

\* Two equal masses with a net momentum, handed over with forces that
\* sum to zero.
DriftingPair ==
    [m |-> << <<40>>, <<40>> >>,
     p |-> << <<0, 0, 0>>, <<0, 6, 0>> >>,
     v |-> << <<1, 0, 0>>, <<0, 0, 1>> >>,
     f |-> << <<0, 80, 0>>, <<0, -80, 0>> >>]

SimInputs == InitialConditions \cup {CoincidentApart, DriftingPair}

TheSim == 1

InitSim ==
    \E ic \in SimInputs, integrator \in Integrators, dt \in DTs :
        LET given == NewData(Empty, ic)
            s == Simulation(given, given.ret, TheCalculator, integrator, dt)
        IN  /\ heap = s.heap
            /\ objs = s.objs
            /\ systems = s.systems
            /\ sims = s.sims
            /\ counters = s.counters
            /\ ret = s.ret
            /\ err = s.err
            /\ last = [op |-> "init", obj |-> None]
            /\ scen = [nsteps |-> 0, prev |-> View(s, get_data(s, TheSim)), evals |-> 0,
                       ref |-> None, refView |-> View(s, get_data(s, TheSim)),
                       given |-> [data |-> given.ret, heap |-> given.heap,
                                  objs |-> given.objs, counters |-> given.counters,
                                  forces_supplied |-> (ic.f # << >>),
                                  integrator |-> integrator, dt |-> dt]]

SimStep ==
    /\ scen.nsteps < MaxSteps
    /\ LET s == Simulation_step(St, TheSim)
       IN  /\ Commit(s)
           /\ scen' = [scen EXCEPT !.nsteps = @ + 1,
                                   !.prev = View(St, get_data(St, TheSim)),
                                   !.evals = s.counters.calc_forces - counters.calc_forces]
    /\ last' = [op |-> "step", obj |-> TheSim]

SimGetData ==
    /\ Commit([St EXCEPT !.ret = get_data(St, TheSim)])
    /\ last' = [op |-> "get_data", obj |-> TheSim]
    /\ scen' = IF scen.ref = None
               THEN [scen EXCEPT !.ref = get_data(St, TheSim),
                                 !.refView = View(St, get_data(St, TheSim))]
               ELSE scen

SimKineticEnergy ==
    /\ Commit(calc_keenetic_energy(St, sims[TheSim].system))
    /\ last' = [op |-> "calc_keenetic_energy", obj |-> sims[TheSim].system]
    /\ UNCHANGED scen

NextSim ==
    \/ SimStep
    \/ SimGetData
    \/ SimKineticEnergy

SpecSim == InitSim /\ [][NextSim]_vars

(***************************************************************************)
(* Claims checked under SpecSim                                            *)
(***************************************************************************)
SimData == StateOf(get_data(St, TheSim))

RECURSIVE HalfMassSpeedSquared(_, _)
HalfMassSpeedSquared(data, i) ==
    IF i = 0 THEN 0
    ELSE Add(HalfMassSpeedSquared(data, i - 1),
             Div(Mul(Mass(data, i), Dot(data.velocities.rows[i], data.velocities.rows[i])), 2))

\* C11: the kinetic-energy accessor returns one scalar, the sum over the
\* bodies of one half the mass times the squared speed (the three squared
\* velocity components of a body added together).
C11_KineticEnergyIsScalarSum ==
    last.op = "calc_keenetic_energy" =>
        /\ ret.shape = << >>
        /\ ret.rows = HalfMassSpeedSquared(SimData, n_particles(SimData))

\* C12: get_data returns the ParticleData object the simulation's system
\* owns: every call returns the object the first call returned, and that
\* object is the one the steps made since then have updated.
C12_GetDataIsLive ==
    scen.ref # None =>
        /\ scen.ref = get_data(St, TheSim)
        /\ last.op = "get_data" => ret = scen.ref
        /\ last.op = "step" => Forces(St, scen.ref) = force_rows(StateOf(scen.ref))

C12_Witness ==
    /\ scen.ref # None
    /\ last.op = "step"
    /\ scen.nsteps = 2
    /\ StateOf(scen.ref).positions # scen.refView.positions
    /\ StateOf(scen.ref).velocities # scen.refView.velocities
    /\ StateOf(scen.ref).forces # scen.refView.forces

HasNonFinite(a) == \E i \in 1..len(a), c \in 1..3 : a.rows[i][c] = NonFinite

Coincident(a) == \E i, j \in 1..len(a) : i # j /\ a.rows[i] = a.rows[j]

Corrupt(data) ==
    HasNonFinite(data.positions) \/ HasNonFinite(data.velocities) \/ HasNonFinite(data.forces)

\* What every step does with non-finite values (scen.prev is the state the
\* last step started from): it raises nothing, carries a non-finite force
\* into the velocities and a non-finite velocity into the positions, and
\* never removes a non-finite value from the state.
NonFiniteCarriedOn ==
    /\ last.op = "step" => err = NoError
    /\ (last.op = "step" /\ HasNonFinite(scen.prev.forces)) => HasNonFinite(SimData.velocities)
    /\ (last.op = "step" /\ HasNonFinite(scen.prev.velocities)) => HasNonFinite(SimData.positions)
    /\ Corrupt(scen.prev) => Corrupt(SimData)

C17_LeapfrogOneForceEvaluation ==
    (last.op = "step" /\ sims[TheSim].integrator = "LF") => scen.evals = 1

\* C18: one call of RK4Integrator.step makes exactly four calls of the
\* system's force recomputation, four times the single call one Euler step
\* makes (and one Leapfrog step is claimed to make, see C17).
C18_RK4FourForceEvaluations ==
    last.op = "step" =>
        /\ sims[TheSim].integrator = "RK4" => scen.evals = 4
        /\ sims[TheSim].integrator = "ExplicitEuler" => 4 * scen.evals = 4

\* The arrays of the simulation's ParticleData are created in the order of
\* their addresses: Created(f, g) says the array now bound to field f was
\* made before the one bound to field g.
Created(f, g) == objs[get_data(St, TheSim)][f] < objs[get_data(St, TheSim)][g]

SteppedWith(integrator) == last.op = "step" /\ sims[TheSim].integrator = integrator

AccelerationsAt(data, positions) ==
    ArrDivCol(force_rows([data EXCEPT !.positions = positions]), data.masses)

\* C21: one Euler step, in this order: the positions become the old
\* positions plus the old velocities times dt; the velocities become the old
\* velocities plus (forces stored at entry / masses) times dt, the forces not
\* being recomputed before they are used; then the forces are recomputed
\* once, at the new positions, as the last thing the step does.
C21_EulerOrder ==
    SteppedWith("ExplicitEuler") =>
        LET dt == sims[TheSim].dt
            prev == scen.prev
        IN  /\ SimData.masses = prev.masses
            /\ SimData.positions = ArrAdd(prev.positions, ArrScale(prev.velocities, dt))
            /\ SimData.velocities =
                   ArrAdd(prev.velocities, ArrScale(ArrDivCol(prev.forces, prev.masses), dt))
            /\ SimData.forces = force_rows(SimData)
            /\ scen.evals = 1
            /\ Created("positions", "velocities")
            /\ Created("velocities", "forces")
            /\ objs[get_data(St, TheSim)].forces = Len(heap)
            /\ counters.returned = Len(heap)

C21_Witness ==
    /\ SteppedWith("ExplicitEuler")
    /\ ~Corrupt(SimData)
    /\ scen.prev.forces # zeros(n_particles(SimData), 3)
    /\ scen.prev.forces # force_rows(scen.prev)
    /\ SimData.positions # scen.prev.positions
    /\ SimData.velocities # scen.prev.velocities
    /\ SimData.forces # scen.prev.forces

\* C22: one Leapfrog step is kick-drift-kick: the forces are recomputed at
\* the entry positions and the velocities advance by (F/m)*(dt/2); the
\* positions advance by the half-kicked velocities times dt; the forces are
\* recomputed at the new positions and the velocities advance by
\* (F/m)*(dt/2) again. The positions are not changed after the last force
\* recomputation.
C22_LeapfrogOrder ==
    SteppedWith("LF") =>
        LET dt == sims[TheSim].dt
            prev == scen.prev
            half == ArrAdd(prev.velocities,
                           ArrScale(AccelerationsAt(prev, prev.positions), Div(dt, 2)))
            moved == ArrAdd(prev.positions, ArrScale(half, dt))
        IN  /\ SimData.masses = prev.masses
            /\ SimData.positions = moved
            /\ SimData.forces = force_rows(SimData)
            /\ SimData.velocities =
                   ArrAdd(half, ArrScale(ArrDivCol(SimData.forces, prev.masses), Div(dt, 2)))
            /\ Created("positions", "forces")
            /\ Created("forces", "velocities")
            /\ counters.returned = objs[get_data(St, TheSim)].forces

C22_Witness ==
    /\ SteppedWith("LF")
    /\ ~Corrupt(SimData)
    /\ scen.nsteps = 2
    /\ SimData.positions # scen.prev.positions
    /\ SimData.velocities # scen.prev.velocities
    /\ SimData.forces # scen.prev.forces
    /\ SimData.forces # zeros(n_particles(SimData), 3)

\* The classical Runge-Kutta stages of the system  x' = v, v' = F(x)/m  from
\* the entry state data: a stage is the pair [x |-> stage velocity,
\* v |-> stage force / mass]; stage k+1 is evaluated at the entry state
\* advanced by h times stage k.
StageAt(data, k, h) ==
    [x |-> ArrAdd(data.velocities, ArrScale(k.v, h)),
     v |-> AccelerationsAt(data, ArrAdd(data.positions, ArrScale(k.x, h)))]

Stage1(data) == [x |-> data.velocities, v |-> AccelerationsAt(data, data.positions)]

Stage2(data, dt) == StageAt(data, Stage1(data), Div(dt, 2))

Stage3(data, dt) == StageAt(data, Stage2(data, dt), Div(dt, 2))

Stage4(data, dt) == StageAt(data, Stage3(data, dt), dt)

Weighted(k1, k2, k3, k4, dt) ==
    ArrScale(ArrAdd(ArrAdd(ArrAdd(k1, ArrScale(k2, 2)), ArrScale(k3, 2)), k4), Div(dt, 6))

\* C23: one RK4 step computes its four stages from the state at entry
\* (pos0, vel0): k2 and k3 at pos0 + k_x*(dt/2), vel0 + k_v*(dt/2) of the
\* preceding stage, k4 at pos0 + k3_x*dt, vel0 + k3_v*dt, with k_x the stage
\* velocity and k_v the stage force / mass; the positions become
\* pos0 + dt/6*(k1_x + 2 k2_x + 2 k3_x + k4_x) and the velocities
\* vel0 + dt/6*(k1_v + 2 k2_v + 2 k3_v + k4_v).
C23_RK4Stages ==
    SteppedWith("RK4") =>
        LET dt == sims[TheSim].dt
            prev == scen.prev
            k1 == Stage1(prev)
            k2 == Stage2(prev, dt)
            k3 == Stage3(prev, dt)
            k4 == Stage4(prev, dt)
        IN  /\ SimData.masses = prev.masses
            /\ SimData.positions =
                   ArrAdd(prev.positions, Weighted(k1.x, k2.x, k3.x, k4.x, dt))
            /\ SimData.velocities =
                   ArrAdd(prev.velocities, Weighted(k1.v, k2.v, k3.v, k4.v, dt))

C23_Witness ==
    /\ SteppedWith("RK4")
    /\ ~Corrupt(SimData)
    /\ Div(sims[TheSim].dt, 6) # 0
    /\ Stage2(scen.prev, sims[TheSim].dt) # Stage1(scen.prev)
    /\ Stage3(scen.prev, sims[TheSim].dt).v # Stage2(scen.prev, sims[TheSim].dt).v
    /\ Stage4(scen.prev, sims[TheSim].dt).v # Stage3(scen.prev, sims[TheSim].dt).v
    /\ SimData.positions # scen.prev.positions
    /\ SimData.velocities # scen.prev.velocities

\* What the generic step(f, t, y, dt) of RK4_integrator.py returns for the
\* N-body right-hand side from the state data at time t.
GenericRK4(data, t, dt) ==
    RK4_integrator_step(system_f(data.masses), t, StateVector(data), dt)

\* The states an RK4 comparison starts from: every initial condition of the
\* runs, and the state the simulation is in now.
RK4Starts(dt) ==
    {NewSimulation(Empty, ic, "RK4", dt) : ic \in SimInputs}
        \cup {[St EXCEPT !.sims[TheSim].integrator = "RK4", !.sims[TheSim].dt = dt]}

\* C24 as stated: the system integrator RK4Integrator.step(system, dt) and
\* the generic step(f, t, y, dt) applied to y = (positions, velocities) with
\* f(t, y) = (velocities, force(positions)/masses) are not equivalent: for
\* some state and dt they produce different positions and velocities (the
\* states tried are RK4Starts and the states one step after them).
C24_RK4ImplementationsDiverge ==
    \E dt \in DTs :
        \E s0 \in RK4Starts(dt) :
            \E s1 \in {Simulation_step(s0, TheSim)} :
                \E s2 \in {Simulation_step(s1, TheSim)} :
                    \/ StateVector(View(s1, get_data(s1, TheSim)))
                           # GenericRK4(View(s0, get_data(s0, TheSim)), 0, dt)
                    \/ StateVector(View(s2, get_data(s2, TheSim)))
                           # GenericRK4(View(s1, get_data(s1, TheSim)), dt, dt)

\* C24, amended: the two RK4 implementations are equivalent: every step of
\* the system integrator leaves exactly the positions and velocities the
\* generic step returns for y = (positions, velocities) at entry and
\* f(t, y) = (velocities, force(positions)/masses).
C24_RK4ImplementationsAgree ==
    SteppedWith("RK4") =>
        StateVector(SimData)
            = GenericRK4(scen.prev, Sub(sims[TheSim].time, sims[TheSim].dt), sims[TheSim].dt)

C24_Witness ==
    /\ SteppedWith("RK4")
    /\ ~Corrupt(SimData)
    /\ n_particles(SimData) = 3
    /\ Div(sims[TheSim].dt, 6) # 0
    /\ SimData.positions # scen.prev.positions
    /\ SimData.velocities # scen.prev.velocities

(***************************************************************************)
(* SpecTest: tests/test_integrators.py, the script that integrates         *)
(* dy/dt = y with the generic step.  heap[TimesArray] is times,            *)
(* heap[YNumArray] is y_num; scen.i counts the entries of y_num filled so  *)
(* far (the loop variable i of the script, which counts from 0, is         *)
(* scen.i when the loop body runs).  The step sizes are multiples of 6, for *)
(* which dt/2 and dt/6 are exact in the arithmetic of this module.         *)
(***************************************************************************)
MaxTestSteps == 2

TestY0 == 1..30

TestDts == {6, -6}

TimesArray == 1

YNumArray == 2

arange(t0, n, dt) == [shape |-> <<n>>, rows |-> [i \in 1..n |-> Add(t0, Mul(i - 1, dt))]]

zeros_like(a) == [shape |-> a.shape, rows |-> [i \in 1..a.shape[1] |-> 0]]

InitTest ==
    \E y0 \in TestY0, dt \in TestDts :
        LET times == arange(0, MaxTestSteps + 1, dt)
        IN  /\ heap = <<times, [zeros_like(times) EXCEPT !.rows[1] = y0]>>
            /\ objs = << >>
            /\ systems = << >>
            /\ sims = << >>
            /\ counters = NoCounts
            /\ ret = None
            /\ err = NoError
            /\ last = [op |-> "init", obj |-> None]
            /\ scen = [i |-> 1, y0 |-> y0, dt |-> dt]

TestLoop ==
    /\ scen.i < len(heap[TimesArray])
    /\ LET times == heap[TimesArray].rows
           y_num == heap[YNumArray].rows
           y == RK4_integrator_step(test_f, times[scen.i], <<y_num[scen.i]>>, scen.dt)
       IN  heap' = [heap EXCEPT ![YNumArray].rows[scen.i + 1] = y[1]]
    /\ scen' = [scen EXCEPT !.i = @ + 1]
    /\ last' = [op |-> "step", obj |-> None]
    /\ UNCHANGED <<objs, systems, sims, counters, ret, err>>

NextTest == TestLoop

SpecTest == InitTest /\ [][NextTest]_vars

(***************************************************************************)
(* Claims checked under SpecTest                                           *)
(***************************************************************************)
\* 24 * (1 + dt + dt^2/2 + dt^3/6 + dt^4/24)
Poly24(dt) == 24 + 24 * dt + 12 * dt * dt + 4 * dt * dt * dt + dt * dt * dt * dt

RECURSIVE Power(_, _)
Power(b, n) == IF n = 0 THEN 1 ELSE b * Power(b, n - 1)

\* C25: the generic step(f, t, y, dt) is a pure function that returns
\* y + dt/6*(k1 + 2 k2 + 2 k3 + k4) with k1 = f(t, y),
\* k2 = f(t + dt/2, y + dt/2*k1), k3 = f(t + dt/2, y + dt/2*k2),
\* k4 = f(t + dt, y + dt*k3); for dy/dt = y every step multiplies y by
\* 1 + dt + dt^2/2 + dt^3/6 + dt^4/24, so n steps from y0 give y0 times the
\* n-th power of that factor; the call changes neither times nor the
\* entries of y_num already computed.
C25_GenericStepOnExponential ==
    LET y_num == heap[YNumArray].rows
        dt == scen.dt
    IN  /\ heap[TimesArray] = arange(0, len(heap[YNumArray]), dt)
        /\ \A i \in 1..len(heap[YNumArray]) :
               IF i > scen.i THEN y_num[i] = 0
               ELSE /\ Poly24(dt) % 24 = 0
                    /\ y_num[i] = scen.y0 * Power(Poly24(dt) \div 24, i - 1)
                    /\ i > 1 =>
                           LET y == y_num[i - 1]
                               k1 == y
                               k2 == y + (dt \div 2) * k1
                               k3 == y + (dt \div 2) * k2
                               k4 == y + dt * k3
                           IN  /\ y_num[i] = y + (dt \div 6) * (k1 + 2 * k2 + 2 * k3 + k4)
                               /\ 24 * y_num[i] = Poly24(dt) * y

C25_Witness ==
    /\ last.op = "step"
    /\ scen.i = 3
    /\ scen.y0 > 1
    /\ heap[YNumArray].rows[3] # heap[YNumArray].rows[2]
    /\ heap[YNumArray].rows[2] # scen.y0

(***************************************************************************)
(* Further claims checked under SpecSim                                    *)
(***************************************************************************)
\* C26: constructing a Simulation wraps the given ParticleData object itself
\* (no copy is made), stores the integrator and dt and sets time to 0; it
\* evaluates no force and changes nothing in the given state.  Afterwards
\* every step() is visible through the caller's original reference.
C26_ConstructionWrapsGivenData ==
    /\ get_data(St, TheSim) = scen.given.data
    /\ objs[scen.given.data].masses = scen.given.objs[scen.given.data].masses
    /\ Len(objs) = Len(scen.given.objs)
    /\ Len(systems) = 1
    /\ sims[TheSim].integrator = scen.given.integrator
    /\ sims[TheSim].dt = scen.given.dt
    /\ SubSeq(heap, 1, Len(scen.given.heap)) = scen.given.heap
    /\ scen.nsteps = 0 =>
           /\ sims[TheSim].time = 0
           /\ objs = scen.given.objs
           /\ counters = scen.given.counters
           /\ counters.calc_forces = 0
           /\ counters.calc_force = 0
    /\ last.op = "init" => heap = scen.given.heap
    /\ last.op = "step" =>
           /\ counters.returned = objs[scen.given.data].forces
           /\ Forces(St, scen.given.data) = force_rows(StateOf(scen.given.data))
           /\ counters.integrator_step = scen.nsteps

C26_Witness ==
    /\ last.op = "step"
    /\ scen.nsteps = 2
    /\ ~Corrupt(SimData)
    /\ Positions(St, scen.given.data) # scen.given.heap[scen.given.objs[scen.given.data].positions]
    /\ Velocities(St, scen.given.data) # scen.given.heap[scen.given.objs[scen.given.data].velocities]
    /\ Forces(St, scen.given.data) # scen.given.heap[scen.given.objs[scen.given.data].forces]

\* Another forces array for the same system (every component raised by
\* 1000, more than any mass of the runs), and the state one step of the
\* integrator leaves when started from data with those forces.
OtherForces(a) ==
    [shape |-> a.shape, rows |-> [i \in 1..len(a) |-> [c \in 1..3 |-> Add(a.rows[i][c], 1000)]]]

TwinStep(data, integrator, dt) ==
    LET ic == [m |-> data.masses.rows, p |-> data.positions.rows,
               v |-> data.velocities.rows, f |-> OtherForces(data.forces).rows]
    IN  CHOOSE r \in {View(s, get_data(s, TheSim)) :
                          s \in {Simulation_step(x, TheSim) :
                                     x \in {NewSimulation(Empty, ic, integrator, dt)}}} : TRUE

\* C27: the result of a Leapfrog or RK4 step does not depend on the forces
\* field at entry: two systems that differ only in their forces end the
\* step equal.  The result of an Euler step does: the twin ends with other
\* velocities (and with the same positions and forces).  The first Euler
\* step on a ParticleData built without forces leaves every velocity as it
\* was.
C27_ForcesAtEntry ==
    last.op = "step" =>
        LET twin == TwinStep(scen.prev, sims[TheSim].integrator, sims[TheSim].dt)
        IN  /\ sims[TheSim].integrator \in {"LF", "RK4"} => twin = SimData
            /\ sims[TheSim].integrator = "ExplicitEuler" =>
                   /\ twin.positions = SimData.positions
                   /\ twin.forces = SimData.forces
                   /\ ~HasNonFinite(twin.velocities) => twin.velocities # SimData.velocities
                   /\ (scen.nsteps = 1 /\ ~scen.given.forces_supplied) =>
                          SimData.velocities = scen.prev.velocities

C27_Witness ==
    /\ SteppedWith("LF")
    /\ ~Corrupt(SimData)
    /\ scen.prev.forces # force_rows(scen.prev)
    /\ scen.prev.forces # zeros(n_particles(SimData), 3)
    /\ SimData.velocities # scen.prev.velocities
    /\ SimData.positions # scen.prev.positions

\* An (n, k) array: n rows of k numbers.
HasShape(a, n, k) ==
    /\ a.shape = <<n, k>>
    /\ DOMAIN a.rows = 1..n
    /\ \A i \in 1..n : DOMAIN a.rows[i] = 1..k

GivenMasses == scen.given.heap[scen.given.objs[scen.given.data].masses]

\* C28: after any sequence of steps, with any of the three integrators, on
\* a valid state, the number of particles and the masses are what they were
\* and positions, velocities and forces are still N x 3 arrays.
C28_ShapesAndMassesKept ==
    /\ SimData.masses = GivenMasses
    /\ n_particles(SimData) = len(GivenMasses)
    /\ HasShape(SimData.masses, len(GivenMasses), 1)
    /\ HasShape(SimData.positions, len(GivenMasses), 3)
    /\ HasShape(SimData.velocities, len(GivenMasses), 3)
    /\ HasShape(SimData.forces, len(GivenMasses), 3)

C28_Witness ==
    /\ last.op = "step"
    /\ scen.nsteps = MaxSteps
    /\ n_particles(SimData) = 3
    /\ ~Corrupt(SimData)
    /\ SimData.positions # scen.prev.positions
    /\ SimData.velocities # scen.prev.velocities
    /\ SimData.forces # scen.prev.forces
    /\ scen.prev.positions # scen.refView.positions

\* C29: no integrator step writes into an existing positions, velocities
\* or forces array: every update binds the field to a newly created array,
\* so an array reference read before step() still shows the values from
\* before the step afterwards; the ParticleData object stays the same one.
C29_StepsRebindFields ==
    [][scen'.nsteps = scen.nsteps + 1 =>
          LET d == get_data(St, TheSim)
          IN  /\ SubSeq(heap', 1, Len(heap)) = heap
              /\ objs'[d].positions > Len(heap)
              /\ objs'[d].velocities > Len(heap)
              /\ objs'[d].forces > Len(heap)
              /\ objs'[d].masses = objs[d].masses
              /\ systems' = systems
              /\ Len(objs') = Len(objs)]_vars

GivenArray(f) == scen.given.objs[scen.given.data][f]

C29_Witness ==
    /\ last.op = "step"
    /\ scen.nsteps = MaxSteps
    /\ ~Corrupt(SimData)
    /\ \A f \in {"positions", "velocities", "forces"} :
           /\ heap[GivenArray(f)] = scen.given.heap[GivenArray(f)]
           /\ heap[objs[scen.given.data][f]] # heap[GivenArray(f)]

\* Sum over the bodies of mass times row: the total momentum for the
\* velocities, total mass times the centre of mass for the positions.
RECURSIVE MassWeightedSum(_, _, _)
MassWeightedSum(masses, a, k) ==
    IF k = 0 THEN Zeros3
    ELSE VAdd(MassWeightedSum(masses, a, k - 1), VScale(masses.rows[k][1], a.rows[k]))

Momentum(data) == MassWeightedSum(data.masses, data.velocities, n_particles(data))

MassMoment(data) == MassWeightedSum(data.masses, data.positions, n_particles(data))

GivenData == View([heap |-> scen.given.heap, objs |-> scen.given.objs], scen.given.data)

\* The runs in which force / mass loses nothing to the truncating division
\* of this module, so that mass times acceleration still sums to zero: one
\* body (its force is zero), or two bodies of equal mass (their forces and
\* so their accelerations are exact opposites).
ExactAccelerations(data) ==
    /\ n_particles(data) <= 2
    /\ \A i \in 1..n_particles(data) : Mass(data, i) = Mass(data, 1)

====
